---- MODULE Spec2Model ----
(***************************************************************************)
(* Model of splearn/rdd.py: the packers _block_collection and              *)
(* _block_tuple, the dispatcher block(), and the wrappers ArrayRDD,        *)
(* TupleRDD and DictRDD over a partitioned collection (pyspark RDD).       *)
(*                                                                         *)
(* Python values are records carrying their class in the field cls, so    *)
(* that values of different classes can be told apart the way Python's     *)
(* isinstance / == do.  A Python list used as a local accumulator is a     *)
(* plain TLA+ sequence.  An RDD is a record with an identity (id) and its  *)
(* partitions; a partition holds its items in order and, when the task     *)
(* computing it raises, the name of the exception.                         *)
(***************************************************************************)
EXTENDS Integers, Sequences, FiniteSets, TLC

VARIABLES rdd, block_size, self, result

vars == <<rdd, block_size, self, result>>

\* ---------------------------------------------------------------- bounds
MaxLen == 3     \* items in the source collection, over all partitions
MaxElem == 2    \* distinct element values
MaxB == 3       \* largest batch size tried
NumParts == 2   \* partitions of the source collection

\* ---------------------------------------------------------- Python values
None == [cls |-> "NoneType"]
PyFalse == [cls |-> "bool", v |-> FALSE]
PyInt(n) == [cls |-> "int", v |-> n]
\* a str is its sequence of characters
PyStr(chars) == [cls |-> "str", v |-> chars]
PyTuple(items) == [cls |-> "tuple", items |-> items]
PyList(items) == [cls |-> "list", items |-> items]
\* a dict is its (key, value) pairs in the dict's iteration order
PyDict(pairs) == [cls |-> "dict", items |-> pairs]
PySlice(start, stop, step) == [cls |-> "slice", start |-> start, stop |-> stop, step |-> step]
Exc(type) == [cls |-> "Exception", type |-> type]
\* a 1-row scipy.sparse matrix whose row content is abstracted by n
SparseRow(n) == [cls |-> "csr_matrix", items |-> <<PyInt(n)>>]

IsNone(x) == x.cls = "NoneType"
IsExc(x) == x.cls = "Exception"
IsWrapper(x) == x.cls \in {"ArrayRDD", "TupleRDD", "DictRDD"}
IsRDD(x) == x.cls = "RDD"
\* hasattr(x, "__iter__") in Python 2: str and unicode have no __iter__
HasIter(x) == x.cls \in {"tuple", "list", "dict", "ndarray", "csr_matrix"}
IsSparse(x) == x.cls = "csr_matrix"

RECURSIVE Concat(_)
Concat(seqs) == IF seqs = <<>> THEN <<>> ELSE Head(seqs) \o Concat(Tail(seqs))

\* numpy.array(items): nested sequences become nested arrays
RECURSIVE NpArray(_)
NpArray(items) ==
    [cls |-> "ndarray",
     items |-> [k \in 1..Len(items) |->
                  IF items[k].cls \in {"tuple", "list", "ndarray"}
                  THEN NpArray(items[k].items)
                  ELSE items[k]]]

\* scipy.sparse.vstack(items): the rows of all the matrices, in order
SpVstack(items) ==
    [cls |-> "csr_matrix", items |-> Concat([k \in 1..Len(items) |-> items[k].items])]

\* list(x): the items iteration yields; a sparse matrix yields 1-row matrices
ListOf(x) ==
    IF IsSparse(x)
    THEN [k \in 1..Len(x.items) |-> [cls |-> "csr_matrix", items |-> <<x.items[k]>>]]
    ELSE x.items

\* len(x)
PyLen(x) == Len(x.items)

\* ------------------------------------------------------------------ packers
_pack_accumulated(accumulated) ==
    IF Len(accumulated) > 0 /\ IsSparse(accumulated[1])
    THEN SpVstack(accumulated)
    ELSE NpArray(accumulated)

\* BlockCollectionBody with the flush test off by one (i > block_size)
BlockCollectionBodyOffByOne(st, a, bs) ==
    LET flush == ~IsNone(bs) /\ st.i > bs.v
    IN  [i |-> (IF flush THEN 0 ELSE st.i) + 1,
         accumulated |-> Append(IF flush THEN <<>> ELSE st.accumulated, a),
         out |-> IF flush THEN Append(st.out, _pack_accumulated(st.accumulated))
                 ELSE st.out]

\* one iteration of the for loop of _block_collection
BlockCollectionBody(st, a, bs) ==
    LET flush == ~IsNone(bs) /\ st.i >= bs.v
    IN  [i |-> (IF flush THEN 0 ELSE st.i) + 1,
         accumulated |-> Append(IF flush THEN <<>> ELSE st.accumulated, a),
         out |-> IF flush THEN Append(st.out, _pack_accumulated(st.accumulated))
                 ELSE st.out]

RECURSIVE BlockCollectionLoop(_, _, _)
BlockCollectionLoop(st, iterator, bs) ==
    IF iterator = <<>> THEN st
    ELSE BlockCollectionLoop(BlockCollectionBody(st, Head(iterator), bs), Tail(iterator), bs)

\* _block_collection without the yield that follows the loop
BlockCollectionNoTail(iterator, bs) ==
    LET st == BlockCollectionLoop([i |-> 0, accumulated |-> <<>>, out |-> <<>>], iterator, bs)
    IN  [items |-> st.out, raised |-> ""]

\* the partition _block_collection produces: the batches it yields
_block_collection(iterator, bs) ==
    LET st == BlockCollectionLoop([i |-> 0, accumulated |-> <<>>, out |-> <<>>], iterator, bs)
    IN  [items |-> Append(st.out, _pack_accumulated(st.accumulated)), raised |-> ""]

\* tuple([] for _ in range(len(tuple_i)))
EmptyBuffers(tuple_i) == [j \in 1..PyLen(tuple_i) |-> <<>>]

\* tuple(_pack_accumulated(x) for x in blocked_tuple)
PackTuple(blocked_tuple) ==
    PyTuple([j \in 1..Len(blocked_tuple) |-> _pack_accumulated(blocked_tuple[j])])

\* for x_j, x in zip(tuple_i, blocked_tuple): x.append(x_j)
ZipAppend(tuple_i, blocked_tuple) ==
    [j \in 1..Len(blocked_tuple) |->
        IF j <= PyLen(tuple_i) THEN Append(blocked_tuple[j], tuple_i.items[j])
        ELSE blocked_tuple[j]]

\* one iteration of the for loop of _block_tuple; blocked_tuple is None
\* (isNone) or the tuple of the per-field buffers (bufs)
BlockTupleBody(st, tuple_i, bs) ==
    LET bt0 == IF st.blocked_tuple.isNone THEN EmptyBuffers(tuple_i)
               ELSE st.blocked_tuple.bufs
        flush == ~IsNone(bs) /\ st.i >= bs.v
    IN  [i |-> (IF flush THEN 0 ELSE st.i) + 1,
         blocked_tuple |->
            [isNone |-> FALSE,
             bufs |-> ZipAppend(tuple_i, IF flush THEN EmptyBuffers(tuple_i) ELSE bt0)],
         out |-> IF flush THEN Append(st.out, PackTuple(bt0)) ELSE st.out]

RECURSIVE BlockTupleLoop(_, _, _)
BlockTupleLoop(st, iterator, bs) ==
    IF iterator = <<>> THEN st
    ELSE BlockTupleLoop(BlockTupleBody(st, Head(iterator), bs), Tail(iterator), bs)

\* the partition _block_tuple produces; iterating None in the final yield
\* raises TypeError
_block_tuple(iterator, bs) ==
    LET st == BlockTupleLoop([i |-> 0, blocked_tuple |-> [isNone |-> TRUE, bufs |-> <<>>],
                              out |-> <<>>], iterator, bs)
    IN  IF st.blocked_tuple.isNone
        THEN [items |-> st.out, raised |-> "TypeError"]
        ELSE [items |-> Append(st.out, PackTuple(st.blocked_tuple.bufs)), raised |-> ""]

\* ------------------------------------------------------- Python sequences
\* range(n)[key] for a slice key (slice.indices): the selected positions
SliceIndices(n, key) ==
    LET step == IF IsNone(key.step) THEN 1 ELSE key.step.v
        lower == IF step > 0 THEN 0 ELSE -1
        upper == IF step > 0 THEN n ELSE n - 1
        clamp(x) == IF x < 0
                    THEN (IF x + n < lower THEN lower ELSE x + n)
                    ELSE (IF x > upper THEN upper ELSE x)
        start == IF IsNone(key.start) THEN (IF step > 0 THEN lower ELSE upper)
                 ELSE clamp(key.start.v)
        stop == IF IsNone(key.stop) THEN (IF step > 0 THEN upper ELSE lower)
                ELSE clamp(key.stop.v)
        len == IF step > 0
               THEN (IF start < stop THEN ((stop - start - 1) \div step) + 1 ELSE 0)
               ELSE (IF stop < start THEN ((start - stop - 1) \div (-step)) + 1 ELSE 0)
    IN  [k \in 1..len |-> start + (k - 1) * step]

\* x[key] for a slice key with a non-zero step, as a sequence of items
PySliceItems(x, key) ==
    LET idx == SliceIndices(PyLen(x), key)
    IN  [k \in 1..Len(idx) |-> x.items[idx[k] + 1]]

\* x[i] for an integer i
PyIndex(x, i) ==
    LET j == IF i < 0 THEN i + PyLen(x) ELSE i
    IN  IF j < 0 \/ j >= PyLen(x) THEN Exc("IndexError") ELSE x.items[j + 1]

\* k in seq
PyIn(k, seq) == \E j \in 1..Len(seq) : seq[j] = k

\* tuple(x): the characters of a str, the items of a list or tuple
TupleOf(x) ==
    IF x.cls = "str" THEN PyTuple([j \in 1..Len(x.v) |-> PyStr(<<x.v[j]>>)])
    ELSE PyTuple(x.items)

\* cols.index(k): the first position of k, ValueError when absent
ColsIndex(cols, k) ==
    IF PyIn(k, cols.items)
    THEN PyInt((CHOOSE j \in 1..PyLen(cols) :
                  cols.items[j] = k /\ \A m \in 1..(j - 1) : cols.items[m] # k) - 1)
    ELSE Exc("ValueError")

\* key.step > 0 in Python 2, where None orders below every number
StepPositive(key) == IF IsNone(key.step) THEN FALSE ELSE key.step.v > 0

\* f(x) for a user function f, left uninterpreted
Apply(f, x) == [cls |-> "applied", f |-> f, arg |-> x]

\* x.items() of a dict (Python 2): the list of its (key, value) pairs
DictItems(x) == PyList(x.items)

\* x.keys() of a dict
DictKeys(x) == PyList([j \in 1..PyLen(x) |-> x.items[j].items[1]])

\* ColumnMapper without the fields after the column
ColumnMapperDropRest(f, column, x) ==
    PyTuple(PySliceItems(x, PySlice(None, PyInt(column), None))
            \o <<Apply(f, PyIndex(x, column))>>)

\* the mapper of TupleRDD.transform for a given column:
\* x[:column] + (f(x[column]),) + x[column + 1:]
ColumnMapper(f, column, x) ==
    PyTuple(PySliceItems(x, PySlice(None, PyInt(column), None))
            \o <<Apply(f, PyIndex(x, column))>>
            \o PySliceItems(x, PySlice(PyInt(column + 1), None, None)))

\* ------------------------------------------------------------------ lambdas
\* A function object handed to the collection: the lambda's name and the
\* variables it closes over.
Lambda(name, env) == [cls |-> "function", name |-> name, env |-> env]

\* fn(x) for the lambdas of the module and the caller's functions
CallFn(fn, x) ==
    CASE fn.name = "block_collection" -> _block_collection(x, fn.env)
      [] fn.name = "block_tuple" -> _block_tuple(x, fn.env)
      [] fn.name = "items" -> DictItems(x)
      [] fn.name = "list" -> ListOf(x)
      [] fn.name = "index_in_indices" -> PyIn(x.items[2].v, fn.env)
      [] fn.name = "index_equals_key" -> x.items[2].v = fn.env.v
      [] fn.name = "index_in_key" -> PyIn(x.items[2], fn.env.items)
      [] fn.name = "drop_index" -> x.items[1]
      [] fn.name = "project_fields" ->
            PyTuple([j \in 1..PyLen(fn.env) |-> PyIndex(x, fn.env.items[j].v)])
      [] fn.name = "project_field" -> PyIndex(x, fn.env.v)
      [] fn.name = "column_mapper" -> ColumnMapper(fn.env.f, fn.env.column, x)
      [] fn.name = "user" -> Apply(fn.env, x)
      [] fn.name = "constant" -> fn.env

\* ------------------------------------------------- the partitioned collection
NewRDD(id, parts) == [cls |-> "RDD", id |-> id, parts |-> parts]

\* rdd.mapPartitions(f): a new collection, f applied to each partition's iterator
RddMapPartitions(r, fn) ==
    NewRDD(r.id + 1,
           [p \in 1..Len(r.parts) |->
              IF r.parts[p].raised # "" THEN r.parts[p] ELSE CallFn(fn, r.parts[p].items)])

\* rdd.map(f)
RddMap(r, fn) ==
    NewRDD(r.id + 1,
           [p \in 1..Len(r.parts) |->
              [items |-> [k \in 1..Len(r.parts[p].items) |-> CallFn(fn, r.parts[p].items[k])],
               raised |-> r.parts[p].raised]])

\* rdd.flatMap(f)
RddFlatMap(r, fn) ==
    NewRDD(r.id + 1,
           [p \in 1..Len(r.parts) |->
              [items |-> Concat([k \in 1..Len(r.parts[p].items) |->
                                    CallFn(fn, r.parts[p].items[k])]),
               raised |-> r.parts[p].raised]])

\* rdd.filter(f)
RddFilter(r, fn) ==
    LET keep(x) == CallFn(fn, x)
    IN  NewRDD(r.id + 1,
               [p \in 1..Len(r.parts) |->
                  [items |-> SelectSeq(r.parts[p].items, keep),
                   raised |-> r.parts[p].raised]])

\* the exception a job over every partition of r ends with, "" when none
RddRaised(r) ==
    IF \E p \in 1..Len(r.parts) : r.parts[p].raised # ""
    THEN r.parts[CHOOSE p \in 1..Len(r.parts) :
                    /\ r.parts[p].raised # ""
                    /\ \A q \in 1..(p - 1) : r.parts[q].raised = ""].raised
    ELSE ""

\* the items of r in partition order (rdd.collect())
RddItems(r) == Concat([p \in 1..Len(r.parts) |-> r.parts[p].items])

\* rdd.count()
RddCount(r) ==
    IF RddRaised(r) # "" THEN Exc(RddRaised(r)) ELSE PyInt(Len(RddItems(r)))

\* rdd.first(): partitions are scanned in order up to the first item; an
\* empty collection raises (take(1)[0] on an empty list)
RECURSIVE FirstFrom(_, _)
FirstFrom(r, p) ==
    IF p > Len(r.parts) THEN Exc("IndexError")
    ELSE IF r.parts[p].raised # "" /\ r.parts[p].items = <<>> THEN Exc(r.parts[p].raised)
    ELSE IF r.parts[p].items # <<>> THEN r.parts[p].items[1]
    ELSE FirstFrom(r, p + 1)

RddFirst(r) == FirstFrom(r, 1)

\* rdd.zipWithIndex(): every item paired with its position among all items
RddZipWithIndex(r) ==
    LET before(p) == Len(Concat([q \in 1..(p - 1) |-> r.parts[q].items]))
    IN  NewRDD(r.id + 1,
               [p \in 1..Len(r.parts) |->
                  [items |-> [k \in 1..Len(r.parts[p].items) |->
                                PyTuple(<<r.parts[p].items[k], PyInt(before(p) + k - 1)>>)],
                   raised |-> r.parts[p].raised]])

\* insert pair x into the sequence s sorted on the index of its pairs
RECURSIVE InsertSorted(_, _, _)
InsertSorted(x, s, ascending) ==
    IF s = <<>> THEN <<x>>
    ELSE IF (ascending /\ x.items[2].v < Head(s).items[2].v)
            \/ (~ascending /\ x.items[2].v > Head(s).items[2].v)
         THEN <<x>> \o s
         ELSE <<Head(s)>> \o InsertSorted(x, Tail(s), ascending)

RECURSIVE SortPairs(_, _)
SortPairs(s, ascending) ==
    IF s = <<>> THEN <<>>
    ELSE InsertSorted(s[Len(s)], SortPairs(SubSeq(s, 1, Len(s) - 1), ascending), ascending)

\* rdd.sortBy(lambda (x, i): i, ascending): the items in sorted order (the
\* range partitioning of the result is not represented: one partition)
RddSortByIndex(r, ascending) ==
    NewRDD(r.id + 1,
           <<[items |-> SortPairs(RddItems(r), ascending), raised |-> RddRaised(r)]>>)

\* the attributes of the underlying collection the model lets a caller reach
RddAttrs == {"count", "first", "cache", "filter", "getNumPartitions"}

\* getattr(rdd, attr)(*args): cache() returns the collection itself, filter a
\* new one (arg: keep every item or none), the others a plain value
RddCall(r, attr, arg) ==
    CASE attr = "count" -> RddCount(r)
      [] attr = "first" -> RddFirst(r)
      [] attr = "cache" -> r
      [] attr = "filter" -> RddFilter(r, Lambda("constant", arg))
      [] attr = "getNumPartitions" -> PyInt(Len(r.parts))

\* ------------------------------------------------------------------ ArrayRDD
\* self._block of the class cls (ArrayRDD._block, overridden by TupleRDD._block)
_block(cls, r, bs) ==
    IF cls = "ArrayRDD"
    THEN RddMapPartitions(r, Lambda("block_collection", bs))
    ELSE RddMapPartitions(r, Lambda("block_tuple", bs))

\* ArrayRDD.__init__ run on an instance of class cls
ArrayRDD__init__(cls, r, bs) ==
    IF IsWrapper(r) THEN [cls |-> cls, block_size |-> bs, _rdd |-> r._rdd]
    ELSE IF IsRDD(r)
         THEN IF bs.cls = "bool" /\ ~bs.v THEN [cls |-> cls, block_size |-> bs, _rdd |-> r]
              ELSE [cls |-> cls, block_size |-> bs, _rdd |-> _block(cls, r, bs)]
         ELSE [cls |-> cls, block_size |-> bs]

\* DictRDD.__init__(rdd, columns, block_size); self.first() is forwarded to
\* the underlying collection
DictRDD__init__(r, columns, bs) ==
    LET base == ArrayRDD__init__("DictRDD", r, bs)
        first == RddFirst(base._rdd)
    IN  IF ~HasIter(columns) THEN Exc("ValueError")
        ELSE IF \E j \in 1..PyLen(columns) : columns.items[j].cls # "str"
             THEN Exc("ValueError")
        ELSE IF IsExc(first) THEN first
        ELSE IF PyLen(columns) # PyLen(first) THEN Exc("ValueError")
        ELSE [cls |-> "DictRDD", block_size |-> bs, _rdd |-> base._rdd,
              _cols |-> TupleOf(columns)]

\* self.__class__(a, b): the constructor of the receiver's class, called
\* with two positional arguments
Construct(cls, a, b) ==
    IF cls = "DictRDD" THEN DictRDD__init__(a, b, None)
    ELSE ArrayRDD__init__(cls, a, b)

\* ArrayRDD.__getattr__(attr)(arg)
ArrayRDD__getattr__(s, attr, arg) ==
    IF attr \notin RddAttrs THEN Exc("AttributeError")
    ELSE LET res == RddCall(s._rdd, attr, arg)
         IN  IF IsRDD(res)
             THEN IF res.id # s._rdd.id THEN Construct(s.cls, res, PyFalse) ELSE s
             ELSE res

\* ArrayRDD.__getitem__
ArrayRDD__getitem__(s, key) ==
    LET indexed == RddZipWithIndex(s._rdd)
    IN  IF key.cls = "slice"
        THEN LET count == ArrayRDD__getattr__(s, "count", None)
             IN  IF IsExc(count) THEN count
                 ELSE IF ~IsNone(key.step) /\ key.step.v = 0 THEN Exc("ValueError")
                 ELSE LET indices == SliceIndices(count.v, key)
                          ascending == StepPositive(key)
                      IN  RddMap(RddSortByIndex(
                                     RddFilter(indexed, Lambda("index_in_indices", indices)),
                                     ascending),
                                 Lambda("drop_index", None))
        ELSE IF key.cls = "int"
        THEN LET found == RddFirst(RddFilter(indexed, Lambda("index_equals_key", key)))
             IN  IF IsExc(found) THEN found ELSE found.items[1]
        ELSE IF HasIter(key)
        THEN RddMap(RddFilter(indexed, Lambda("index_in_key", key)),
                    Lambda("drop_index", None))
        ELSE Exc("KeyError")

\* ArrayRDD.tolist
ArrayRDD_tolist(s) == RddFlatMap(s._rdd, Lambda("list", None))

\* ArrayRDD.map(f)
ArrayRDD_map(s, fn) == ArrayRDD__init__("ArrayRDD", RddMap(s._rdd, fn), PyFalse)

\* ArrayRDD.transform(f)
ArrayRDD_transform(s, f) == ArrayRDD_map(s, Lambda("user", f))

\* ArrayRDD.blocks
ArrayRDD_blocks(s) == RddCount(s._rdd)

RECURSIVE SumSeq(_)
SumSeq(ns) == IF ns = <<>> THEN 0 ELSE Head(ns) + SumSeq(Tail(ns))

\* ArrayRDD.__len__: shape[0], the leading dimensions of the batches added up
ArrayRDD__len__(s) ==
    LET first == RddFirst(s._rdd)
        blocks == RddItems(s._rdd)
    IN  IF IsExc(first) THEN first
        ELSE IF RddRaised(s._rdd) # "" THEN Exc(RddRaised(s._rdd))
        ELSE PyInt(SumSeq([k \in 1..Len(blocks) |-> Len(ListOf(blocks[k]))]))

\* ------------------------------------------------------------------ TupleRDD
\* TupleRDD.__getitem__
TupleRDD__getitem__(s, key) ==
    IF HasIter(key)
    THEN ArrayRDD__init__("TupleRDD", RddMap(s._rdd, Lambda("project_fields", key)), PyFalse)
    ELSE ArrayRDD__init__("ArrayRDD", RddMap(s._rdd, Lambda("project_field", key)), PyFalse)

\* TupleRDD.transform(f, column)
TupleRDD_transform(s, f, column) ==
    LET mapper == IF ~IsNone(column)
                  THEN Lambda("column_mapper", [f |-> f, column |-> column.v])
                  ELSE Lambda("user", f)
    IN  ArrayRDD__init__("TupleRDD", ArrayRDD_map(s, mapper), PyFalse)

\* ------------------------------------------------------------------- DictRDD
\* DictRDD.__getitem__
DictRDD__getitem__(s, key) ==
    IF TupleOf(key) = s._cols THEN s
    ELSE IF HasIter(key)
    THEN LET indices == [j \in 1..PyLen(key) |-> ColsIndex(s._cols, key.items[j])]
         IN  IF \E j \in 1..Len(indices) : IsExc(indices[j]) THEN Exc("ValueError")
             ELSE DictRDD__init__(TupleRDD__getitem__(s, PyList(indices)), key, None)
    ELSE LET index == ColsIndex(s._cols, key)
         IN  IF IsExc(index) THEN index ELSE TupleRDD__getitem__(s, index)

\* DictRDD.__contains__
DictRDD__contains__(s, key) == PyIn(key, s._cols.items)

\* DictRDD.transform(f, column)
DictRDD_transform(s, f, column) ==
    LET col == IF ~IsNone(column) THEN ColsIndex(s._cols, column) ELSE column
    IN  IF IsExc(col) THEN col
        ELSE DictRDD__init__(TupleRDD_transform(s, f, col), s._cols, None)

\* ---------------------------------------------------------------- dispatcher
\* block(rdd, block_size)
block(r, bs) ==
    LET entry == RddFirst(r)
    IN  IF IsExc(entry) THEN (IF entry.type = "IndexError" THEN r ELSE entry)
        ELSE IF entry.cls = "dict"
        THEN DictRDD__init__(RddMap(r, Lambda("items", None)), DictKeys(entry), None)
        ELSE IF entry.cls = "tuple" THEN ArrayRDD__init__("TupleRDD", r, bs)
        ELSE ArrayRDD__init__("ArrayRDD", r, bs)

\* ------------------------------------------------------------ source inputs
\* an element with value n: a scalar, or a sparse row vector
El(storage, n) == IF storage = "sparse" THEN SparseRow(n) ELSE PyInt(n)

\* the column-name sequences of the dict sources tried
Schemas == {<<"x", "y">>, <<"x">>}

\* the records a source collection of the given kind can hold: Elements,
\* (feature, label) Record-tuples, or name -> value mappings over schema
Records(kind, storage, schema) ==
    CASE kind = "array" -> {El(storage, n) : n \in 1..MaxElem}
      [] kind = "tuple" -> {PyTuple(<<El(storage, n), PyInt(10 + n)>>) : n \in 1..MaxElem}
      [] kind = "dict" ->
            {PyDict([j \in 1..Len(schema) |->
                        PyTuple(<<PyStr(<<schema[j]>>), PyInt(10 * (j - 1) + n)>>)])
               : n \in 1..MaxElem}

SeqsUpTo(S, n) == UNION {[1..m -> S] : m \in 0..n}

\* the ways to cut a sequence of length n into NumParts consecutive partitions
Cuts(n) == {c \in [0..NumParts -> 0..n] :
              /\ c[0] = 0
              /\ c[NumParts] = n
              /\ \A p \in 1..NumParts : c[p - 1] <= c[p]}

Partitioned(items, c) ==
    [p \in 1..NumParts |->
        [items |-> SubSeq(items, c[p - 1] + 1, c[p]), raised |-> ""]]

BlockSizes == {None} \cup {PyInt(b) : b \in 1..MaxB}

\* the keys tried on an ArrayRDD
SliceKeys == {PySlice(a, b, c) :
                a \in {None, PyInt(0), PyInt(1)},
                b \in {None, PyInt(2), PyInt(-1)},
                c \in {None, PyInt(1), PyInt(2), PyInt(-1), PyInt(0)}}
ArrayKeys == {PyInt(k) : k \in -1..MaxLen}
             \cup SliceKeys
             \cup {PyList(<<PyInt(0)>>), PyList(<<PyInt(1), PyInt(0)>>), None}

\* the keys tried on a TupleRDD: a position, or a list of positions
TupleKeys == {PyInt(0), PyInt(1), PyList(<<PyInt(1), PyInt(0)>>)}

\* the keys tried on a DictRDD: single names, and lists of names
NameKeys == {PyStr(<<"x">>), PyStr(<<"y">>), PyStr(<<"z">>), PyStr(<<"x", "y">>)}
DictKeysTried == NameKeys
                 \cup {PyList(<<PyStr(<<"y">>), PyStr(<<"x">>)>>),
                       PyList(<<PyStr(<<"x">>), PyStr(<<"y">>)>>)}

\* ------------------------------------------------------------ state machine
\* No operation changes the receiver, so a behaviour is one call of block()
\* followed by one operation on what it returned: every pair of a wrapper
\* and an operation's result is reached this way.
\* a source collection and a batch size; block() has not been called yet
Init ==
    \E kind \in {"array", "tuple", "dict"}, storage \in {"dense", "sparse"},
       schema \in Schemas :
      /\ kind = "dict" => storage = "dense"
      /\ kind # "dict" => schema = <<"x", "y">>
      /\ \E items \in SeqsUpTo(Records(kind, storage, schema), MaxLen) :
           \E c \in Cuts(Len(items)) :
              rdd = NewRDD(0, Partitioned(items, c))
      /\ block_size \in BlockSizes
      /\ self = None
      /\ result = None

Block ==
    /\ IsNone(self)
    /\ self' = block(rdd, block_size)
    /\ UNCHANGED <<rdd, block_size, result>>

ArrayGetItem ==
    /\ IsNone(result)
    /\ self.cls = "ArrayRDD"
    /\ \E key \in ArrayKeys :
         result' = [cls |-> "OpResult", op |-> "getitem", key |-> key, value |-> ArrayRDD__getitem__(self, key)]
    /\ UNCHANGED <<rdd, block_size, self>>

TupleGetItem ==
    /\ IsNone(result)
    /\ self.cls = "TupleRDD"
    /\ \E key \in TupleKeys :
         result' = [cls |-> "OpResult", op |-> "getitem", key |-> key, value |-> TupleRDD__getitem__(self, key)]
    /\ UNCHANGED <<rdd, block_size, self>>

DictGetItem ==
    /\ IsNone(result)
    /\ self.cls = "DictRDD"
    /\ \E key \in DictKeysTried :
         result' = [cls |-> "OpResult", op |-> "getitem", key |-> key, value |-> DictRDD__getitem__(self, key)]
    /\ UNCHANGED <<rdd, block_size, self>>

DictContains ==
    /\ IsNone(result)
    /\ self.cls = "DictRDD"
    /\ \E key \in NameKeys :
         result' = [cls |-> "OpResult", op |-> "contains", key |-> key,
                    value |-> [cls |-> "bool", v |-> DictRDD__contains__(self, key)]]
    /\ UNCHANGED <<rdd, block_size, self>>

ToList ==
    /\ IsNone(result)
    /\ IsWrapper(self)
    /\ result' = [cls |-> "OpResult", op |-> "tolist", key |-> None, value |-> ArrayRDD_tolist(self)]
    /\ UNCHANGED <<rdd, block_size, self>>

Blocks ==
    /\ IsNone(result)
    /\ IsWrapper(self)
    /\ result' = [cls |-> "OpResult", op |-> "blocks", key |-> None, value |-> ArrayRDD_blocks(self)]
    /\ UNCHANGED <<rdd, block_size, self>>

ArrayTransform ==
    /\ IsNone(result)
    /\ self.cls = "ArrayRDD"
    /\ result' = [cls |-> "OpResult", op |-> "transform", key |-> None, value |-> ArrayRDD_transform(self, "f")]
    /\ UNCHANGED <<rdd, block_size, self>>

TupleTransform ==
    /\ IsNone(result)
    /\ self.cls = "TupleRDD"
    /\ \E column \in {None, PyInt(0), PyInt(1)} :
         result' = [cls |-> "OpResult", op |-> "transform", key |-> column,
                    value |-> TupleRDD_transform(self, "f", column)]
    /\ UNCHANGED <<rdd, block_size, self>>

DictTransform ==
    /\ IsNone(result)
    /\ self.cls = "DictRDD"
    /\ \E column \in {PyStr(<<"x">>), PyStr(<<"y">>), PyStr(<<"z">>)} :
         result' = [cls |-> "OpResult", op |-> "transform", key |-> column,
                    value |-> DictRDD_transform(self, "f", column)]
    /\ UNCHANGED <<rdd, block_size, self>>

Delegate ==
    /\ IsNone(result)
    /\ IsWrapper(self)
    /\ \E attr \in RddAttrs \cup {"bogus"}, arg \in BOOLEAN :
         /\ attr # "filter" => arg
         /\ result' = [cls |-> "OpResult", op |-> "getattr", key |-> [cls |-> "call", attr |-> attr, arg |-> arg],
                       value |-> ArrayRDD__getattr__(self, attr, arg)]
    /\ UNCHANGED <<rdd, block_size, self>>

Next ==
    \/ Block
    \/ ArrayGetItem
    \/ TupleGetItem
    \/ DictGetItem
    \/ DictContains
    \/ ToList
    \/ Blocks
    \/ ArrayTransform
    \/ TupleTransform
    \/ DictTransform
    \/ Delegate

Spec == Init /\ [][Next]_vars

\* ------------------------------------------------------------------ claims
\* Python ==: values of different classes are never equal
PyEq(a, b) == a.cls = b.cls /\ a = b

IsResult(op) == result.cls = "OpResult" /\ result.op = op

\* the leading dimensions found in a batch: its own for an element Batch,
\* its fields' for a Columnar Batch
LeadingDims(b) ==
    IF b.cls = "tuple" THEN {Len(ListOf(b.items[j])) : j \in 1..PyLen(b)}
    ELSE {Len(ListOf(b))}

\* C1: for every non-empty partition and every batch size (or none), the
\* Batches of _block_collection, flattened in emission order as tolist does,
\* are the partition's Elements, each once and in the original order.
C1_ElementRoundTrip ==
    self.cls = "ArrayRDD" =>
        \A p \in 1..Len(rdd.parts) :
            rdd.parts[p].items # <<>> =>
                /\ self._rdd.parts[p].raised = ""
                /\ ArrayRDD_tolist(self).parts[p].items = rdd.parts[p].items

\* a partition of three or more Elements packed into at least two Batches
C1_Witness ==
    /\ self.cls = "ArrayRDD"
    /\ block_size.cls = "int"
    /\ \E p \in 1..Len(rdd.parts) :
          /\ Len(rdd.parts[p].items) >= 3
          /\ rdd.parts[p].items[1] # rdd.parts[p].items[2]
          /\ Len(self._rdd.parts[p].items) >= 2

\* C2: with batch size B >= 1 every Batch of a non-empty partition but the
\* last holds exactly B items and the last holds 1..B, for both packers;
\* with B unset the partition is exactly one Batch.
C2_BatchSizeBound ==
    self.cls \in {"ArrayRDD", "TupleRDD"} =>
        \A p \in 1..Len(rdd.parts) :
            rdd.parts[p].items # <<>> =>
                LET blocks == self._rdd.parts[p].items
                    n == Len(blocks)
                IN  /\ n >= 1
                    /\ IsNone(block_size) =>
                          /\ n = 1
                          /\ LeadingDims(blocks[1]) = {Len(rdd.parts[p].items)}
                    /\ ~IsNone(block_size) =>
                          /\ \A k \in 1..(n - 1) : LeadingDims(blocks[k]) = {block_size.v}
                          /\ \A d \in LeadingDims(blocks[n]) : 1 <= d /\ d <= block_size.v

\* the tuple packer cutting a partition into a full Batch and a shorter last one
C2_Witness ==
    /\ self.cls = "TupleRDD"
    /\ block_size.cls = "int"
    /\ block_size.v = 2
    /\ \E p \in 1..Len(rdd.parts) :
          /\ Len(rdd.parts[p].items) = 3
          /\ Len(self._rdd.parts[p].items) = 2

\* C3: collection[i], 0 <= i < len(collection), is the Element at position i
\* of the flattened sequence, however the Elements are batched.
C3_GlobalIntegerIndexing ==
    (/\ IsResult("getitem")
     /\ self.cls = "ArrayRDD"
     /\ result.key.cls = "int"
     /\ 0 <= result.key.v
     /\ result.key.v < ArrayRDD__len__(self).v) =>
        PyEq(result.value, RddItems(ArrayRDD_tolist(self))[result.key.v + 1])

\* the i-th components of a sequence of rows
Column(rows, j) == [k \in 1..Len(rows) |-> rows[k].items[j]]

\* C4: the Columnar Batches of the tuple packer hold, field by field, the
\* components of the rows in order, and flattening the TupleRDD (tolist)
\* gives back the original Record-tuples, one per row, in order.
C4_RecordTupleRoundTrip ==
    self.cls = "TupleRDD" =>
        \A p \in 1..Len(rdd.parts) :
            LET rows == rdd.parts[p].items
                blocks == self._rdd.parts[p].items
            IN  rows # <<>> =>
                  /\ \A j \in 1..PyLen(rows[1]) :
                        Concat([k \in 1..Len(blocks) |-> ListOf(blocks[k].items[j])])
                            = Column(rows, j)
                  /\ ArrayRDD_tolist(self).parts[p].items = rows

\* record[name] of a dict record
DictValue(record, name) ==
    (CHOOSE pair \in {record.items[j] : j \in 1..PyLen(record)} : pair.items[1] = name).items[2]

\* C5: block() on a source of name -> value mappings builds a DictRDD whose
\* schema is the mapping's keys, and for every name n of the schema
\* collection[n], flattened, is the sequence of record[n] over the source
\* records in order.
C5_NamedColumnDispatch ==
    (/\ IsResult("getitem")
     /\ self.cls = "DictRDD"
     /\ result.key.cls = "str"
     /\ PyIn(result.key, DictKeys(RddFirst(rdd)).items)) =>
        /\ self._cols = TupleOf(DictKeys(RddFirst(rdd)))
        /\ IsWrapper(result.value)
        /\ RddItems(ArrayRDD_tolist(result.value))
              = [k \in 1..Len(RddItems(rdd)) |-> DictValue(RddItems(rdd)[k], result.key)]

\* C6: a forwarded call whose result is a partitioned collection returns,
\* for each of the three wrapper classes, the receiver itself when the
\* result is the wrapped collection and otherwise a new wrapper of the
\* receiver's class around the result, not re-packed, without raising.
C6_DelegationRewrapping ==
    (/\ IsResult("getattr")
     /\ result.key.attr \in RddAttrs
     /\ IsRDD(RddCall(self._rdd, result.key.attr, result.key.arg))) =>
        LET res == RddCall(self._rdd, result.key.attr, result.key.arg)
        IN  IF res.id = self._rdd.id
            THEN PyEq(result.value, self)
            ELSE /\ IsWrapper(result.value)
                 /\ result.value.cls = self.cls
                 /\ result.value._rdd = res

\* C7: a slice key returns exactly the items whose offset is in the index
\* set of the slice, ascending when the step is positive or omitted and
\* descending when it is negative.
C7_SliceOrdering ==
    (/\ IsResult("getitem")
     /\ self.cls = "ArrayRDD"
     /\ result.key.cls = "slice"
     /\ (IsNone(result.key.step) \/ result.key.step.v # 0)) =>
        LET all == RddItems(self._rdd)
            idx == SliceIndices(Len(all), result.key)
        IN  /\ IsRDD(result.value)
            /\ RddItems(result.value) = [k \in 1..Len(idx) |-> all[idx[k] + 1]]

\* C8: for a single string key that is not a name of the schema,
\* collection[key] raises and returns no collection; an element view comes
\* only from a key that is a name of the schema.
C8_UnknownColumnFails ==
    (/\ IsResult("getitem")
     /\ self.cls = "DictRDD"
     /\ result.key.cls = "str"
     /\ ~DictRDD__contains__(self, result.key)) =>
        IsExc(result.value)

\* C9: a partition whose iterator yields nothing gets no Batch and the
\* packer completes without raising, so the number of blocks counts the
\* Batches of the non-empty partitions only.
C9_EmptyPartition ==
    IsWrapper(self) =>
        /\ \A p \in 1..Len(rdd.parts) :
              rdd.parts[p].items = <<>> =>
                  /\ self._rdd.parts[p].raised = ""
                  /\ self._rdd.parts[p].items = <<>>
        /\ PyEq(ArrayRDD_blocks(self),
                PyInt(Len(Concat([p \in 1..Len(rdd.parts) |->
                         IF rdd.parts[p].items = <<>> THEN <<>>
                         ELSE self._rdd.parts[p].items]))))

\* the position transform(f, column) resolves column to on the receiver
ColumnPosition ==
    IF self.cls = "DictRDD" THEN ColsIndex(self._cols, result.key) ELSE result.key

\* C10: transform(f, column=c) on a TupleRDD of arity N, 0 <= c < N, returns
\* a new TupleRDD whose Columnar Batches have arity N, field c being f of the
\* original field c and every other field the original one in place; the
\* receiver is unchanged.  On a DictRDD c is resolved from the column name
\* and the result keeps the column names.
C10_TransformFrame ==
    (/\ IsResult("transform")
     /\ self.cls \in {"TupleRDD", "DictRDD"}
     /\ ColumnPosition.cls = "int"
     /\ 0 <= ColumnPosition.v) =>
        LET c == ColumnPosition.v
            out == result.value
        IN  /\ self = block(rdd, block_size)
            /\ IsWrapper(out)
            /\ out.cls = self.cls
            /\ self.cls = "DictRDD" => out._cols = self._cols
            /\ out._rdd.id # self._rdd.id
            /\ Len(out._rdd.parts) = Len(self._rdd.parts)
            /\ \A p \in 1..Len(self._rdd.parts) :
                  LET xs == self._rdd.parts[p].items
                      ys == out._rdd.parts[p].items
                  IN  /\ Len(ys) = Len(xs)
                      /\ \A k \in 1..Len(xs) :
                            /\ ys[k].cls = "tuple"
                            /\ PyLen(ys[k]) = PyLen(xs[k])
                            /\ \A j \in 1..PyLen(xs[k]) :
                                  ys[k].items[j] =
                                      IF j = c + 1 THEN Apply("f", xs[k].items[j])
                                      ELSE xs[k].items[j]

\* transform on column 0 of a TupleRDD that holds at least two Columnar Batches
C10_Witness ==
    /\ IsResult("transform")
    /\ self.cls = "TupleRDD"
    /\ result.key.cls = "int"
    /\ result.key.v = 0
    /\ IsWrapper(result.value)
    /\ Len(RddItems(result.value._rdd)) >= 2
    /\ RddItems(result.value._rdd)[1].items[1].cls = "applied"

====
